---- MODULE Spec2Model ----
(***************************************************************************)
(* Model of llm/tool.py: the parameter schema compiler convert_parameter,  *)
(* the Tool wrapper's construction (Tool.__init__) and its two call paths  *)
(* (Tool.__call__ and Tool.safe_call).                                     *)
(*                                                                         *)
(* Python values are modelled structurally:                                *)
(*  - a type used as an annotation is the set of the classes it unions     *)
(*    (a class is a singleton; int | None is {"int", "NoneType"}), which   *)
(*    gives unions Python's order-insensitive equality and hash;           *)
(*  - a str is the sequence of its lexemes, so that json.loads is a        *)
(*    parser and json.dumps a printer;                                     *)
(*  - an exception is a record of its class, message, whether the class    *)
(*    derives from Exception, and whether its repr() raises.               *)
(***************************************************************************)
EXTENDS Integers, Sequences, FiniteSets, TLC

VARIABLES function, toolState, schema, raised, frames, param, converted

vars == <<function, toolState, schema, raised, frames, param, converted>>

(* ------------------------------ bounds --------------------------------- *)

MaxParams == 2
MaxMeta == 2
MaxCallers == 2

(* ----------------------------- exceptions ------------------------------ *)

Exc(cls, msg, isExc, reprRaises) ==
    [cls |-> cls, msg |-> msg, isException |-> isExc, reprRaises |-> reprRaises]

NoExc == Exc("", "", FALSE, FALSE)

MissingDescription ==
    Exc("ValueError", "Tool functions must have a doc comment description", TRUE, FALSE)

InvalidReturnType ==
    Exc("ValueError", "Tool functions must return a string", TRUE, FALSE)

MalformedAnnotation ==
    Exc("ValueError",
        "Function parameters must be annotated with typing.Annotated[<type>, 'description']",
        TRUE, FALSE)

\* str() of a class, as the f-string of the TypeError formats it
TypeStr ==
    [int |-> "<class 'int'>", float |-> "<class 'float'>", bool |-> "<class 'bool'>",
     str |-> "<class 'str'>", list |-> "<class 'list'>", NoneType |-> "<class 'NoneType'>",
     object |-> "<class 'object'>", dict |-> "<class 'dict'>",
     MyEnum |-> "<enum 'MyEnum'>", Color |-> "<enum 'Color'>",
     PlainEnum |-> "<enum 'PlainEnum'>",
     ListOfInt |-> "list[int]"]

ClassNames == DOMAIN TypeStr

TheClass(origin) == CHOOSE c \in origin : TRUE

\* str() of a class or of a union of classes
OriginStr(origin) ==
    IF Cardinality(origin) = 1
    THEN TypeStr[TheClass(origin)]
    ELSE IF origin = {"int", "str"}
    THEN "int | str"
    ELSE "typing.Optional[" \o (CHOOSE c \in origin : c # "NoneType") \o "]"

UnsupportedParameterType(origin) ==
    Exc("TypeError",
        "Annotated parameter type " \o OriginStr(origin) \o " not supported",
        TRUE, FALSE)

\* what issubclass() raises when its first argument is a union object
IssubclassArgError ==
    Exc("TypeError", "issubclass() arg 1 must be a class", TRUE, FALSE)

(* ------------------------- types and annotations ----------------------- *)

Class(c) == {c}
Nullable(c) == {c, "NoneType"}

\* TYPEMAP without its Union[list | None] key
TYPEMAP_noNullableList ==
    (Class("int") :> "integer") @@ (Nullable("int") :> "integer") @@
    (Class("float") :> "number") @@ (Nullable("float") :> "number") @@
    (Class("list") :> "array") @@
    (Class("bool") :> "boolean") @@ (Nullable("bool") :> "boolean") @@
    (Class("str") :> "string") @@ (Nullable("str") :> "string") @@
    (Class("NoneType") :> "null")

TYPEMAP ==
    (Class("int") :> "integer") @@ (Nullable("int") :> "integer") @@
    (Class("float") :> "number") @@ (Nullable("float") :> "number") @@
    (Class("list") :> "array") @@ (Nullable("list") :> "array") @@
    (Class("bool") :> "boolean") @@ (Nullable("bool") :> "boolean") @@
    (Class("str") :> "string") @@ (Nullable("str") :> "string") @@
    (Class("NoneType") :> "null")

\* the members of the enum.StrEnum classes, in declaration order
StrEnumMembers ==
    [MyEnum |-> <<[name |-> "A", value |-> "a"], [name |-> "B", value |-> "b"]>>,
     Color |-> <<[name |-> "RED", value |-> "red"], [name |-> "GREEN", value |-> "green"],
                 [name |-> "BLUE", value |-> "blue"]>>]

\* issubclass(origin, enum.StrEnum) accepts classes and generic aliases
\* and raises for a union object
IsClass(origin) == Cardinality(origin) = 1

issubclass_StrEnum(origin) == TheClass(origin) \in DOMAIN StrEnumMembers

Origins ==
    {Class(c) : c \in ClassNames}
        \cup {Nullable(c) : c \in ClassNames \ {"NoneType", "ListOfInt"}}
        \cup {{"int", "str"}}

Meta(isStr, text) == [isStr |-> isStr, text |-> text]

MetaValues == {Meta(TRUE, "a desc"), Meta(TRUE, ""), Meta(FALSE, "42")}

SeqsUpTo(S, n) == UNION {[1..k -> S] : k \in 1..n}

EmptyAnnotation == [form |-> "empty", origin |-> {}, metadata |-> <<>>]
Plain(origin) == [form |-> "plain", origin |-> origin, metadata |-> <<>>]
Annotated(origin, metadata) ==
    [form |-> "Annotated", origin |-> origin, metadata |-> metadata]

\* typing.get_origin: Annotated for an Annotated[...] form; for a bare class,
\* a union, a generic alias or inspect.Parameter.empty something else
get_origin(annotation) ==
    IF annotation.form = "Annotated" THEN "Annotated" ELSE "None"

Parameter(name, annotation, hasDefault) ==
    [name |-> name, annotation |-> annotation, hasDefault |-> hasDefault]

(* --------------------------- convert_parameter ------------------------- *)

Converted(fragment) == [ok |-> TRUE, schema |-> fragment, exc |-> NoExc]
ConvertRaises(e) == [ok |-> FALSE, schema |-> <<>>, exc |-> e]

EnumValues(origin) ==
    LET members == StrEnumMembers[TheClass(origin)]
    IN  [i \in 1..Len(members) |-> members[i].value]

convert_parameter(p) ==
    LET annotation == p.annotation
        unsubscriped_type == get_origin(annotation)
    IN  IF ~(/\ unsubscriped_type = "Annotated"
             /\ Len(annotation.metadata) = 1
             /\ annotation.metadata[1].isStr)
        THEN ConvertRaises(MalformedAnnotation)
        ELSE LET description == annotation.metadata[1].text
                 origin == annotation.origin
             IN  IF origin \in DOMAIN TYPEMAP
                 THEN Converted([description |-> description, type |-> TYPEMAP[origin]])
                 ELSE IF ~IsClass(origin)
                 THEN ConvertRaises(IssubclassArgError)
                 ELSE IF issubclass_StrEnum(origin)
                 THEN Converted([description |-> description, type |-> "string",
                                 enum |-> EnumValues(origin)])
                 ELSE ConvertRaises(UnsupportedParameterType(origin))

(* ------------------------------ callables ------------------------------ *)

DocNone == [isNone |-> TRUE, text |-> ""]
Doc(text) == [isNone |-> FALSE, text |-> text]

\* truth value of function.__doc__
Truthy(doc) == ~doc.isNone /\ doc.text # ""

Callable(name, doc, ret, params, body) ==
    [name |-> name, doc |-> doc, ret |-> ret, params |-> params, body |-> body]

ParamNames == <<"a", "b", "c", "d">>

(* ----------------------------- Tool.__init__ --------------------------- *)

NoSchema == <<>>

Constructed(s) == [ok |-> TRUE, schema |-> s, exc |-> NoExc]
ConstructRaises(e) == [ok |-> FALSE, schema |-> NoSchema, exc |-> e]

\* the dict comprehension over signature.parameters.items(): the first
\* parameter whose conversion raises ends the comprehension
RECURSIVE Properties(_, _, _)
Properties(params, i, acc) ==
    IF i > Len(params)
    THEN Converted(acc)
    ELSE LET c == convert_parameter(params[i])
         IN  IF ~c.ok
             THEN c
             ELSE Properties(params, i + 1, (params[i].name :> c.schema) @@ acc)

\* required computed from the default and the nullability of the type
RECURSIVE Required_skipNullable(_, _)
Required_skipNullable(params, i) ==
    IF i > Len(params)
    THEN <<>>
    ELSE IF /\ ~params[i].hasDefault
            /\ ~("NoneType" \in params[i].annotation.origin
                    /\ params[i].annotation.origin # {"NoneType"})
         THEN <<params[i].name>> \o Required_skipNullable(params, i + 1)
         ELSE Required_skipNullable(params, i + 1)

\* the list comprehension of the names whose default is inspect.Parameter.empty
RECURSIVE Required(_, _)
Required(params, i) ==
    IF i > Len(params)
    THEN <<>>
    ELSE IF ~params[i].hasDefault
         THEN <<params[i].name>> \o Required(params, i + 1)
         ELSE Required(params, i + 1)

\* Tool.__init__ without the test of signature.parameters
ToolInit_emptyParameters(f) ==
    IF ~Truthy(f.doc)
    THEN ConstructRaises(MissingDescription)
    ELSE IF f.ret # "str"
    THEN ConstructRaises(InvalidReturnType)
    ELSE LET head == [name |-> f.name, description |-> f.doc.text]
             properties == Properties(f.params, 1, <<>>)
         IN  IF ~properties.ok
             THEN ConstructRaises(properties.exc)
             ELSE Constructed(
                     [type |-> "function",
                      function |-> head @@
                          [parameters |->
                              [type |-> "object",
                               properties |-> properties.schema,
                               required |-> Required(f.params, 1)]]])

ToolInit(f) ==
    IF ~Truthy(f.doc)
    THEN ConstructRaises(MissingDescription)
    ELSE IF f.ret # "str"
    THEN ConstructRaises(InvalidReturnType)
    ELSE LET head == [name |-> f.name, description |-> f.doc.text]
         IN  IF Len(f.params) > 0
             THEN LET properties == Properties(f.params, 1, <<>>)
                  IN  IF ~properties.ok
                      THEN ConstructRaises(properties.exc)
                      ELSE Constructed(
                              [type |-> "function",
                               function |-> head @@
                                   [parameters |->
                                       [type |-> "object",
                                        properties |-> properties.schema,
                                        required |-> Required(f.params, 1)]]])
             ELSE Constructed([type |-> "function", function |-> head])

(* ------------------------- str values and JSON -------------------------- *)

\* a str is the sequence of its lexemes; whitespace and the position
\* suffix of decoder messages are left out
Tok(t, v) == [t |-> t, v |-> v]

LBrace == Tok("punct", "{")
RBrace == Tok("punct", "}")
LBracket == Tok("punct", "[")
RBracket == Tok("punct", "]")
Colon == Tok("punct", ":")
Comma == Tok("punct", ",")
StrTok(s) == Tok("str", s)
IntTok(s) == Tok("int", s)
LitTok(s) == Tok("lit", s)
WordTok(s) == Tok("word", s)

IntLexemes == <<"0", "1", "2", "3">>

IntOf(lexeme) == (CHOOSE i \in DOMAIN IntLexemes : IntLexemes[i] = lexeme) - 1

\* Python values that JSON can carry
Val(k, n, s, items) == [k |-> k, n |-> n, s |-> s, items |-> items]
PyInt(n) == Val("int", n, "", <<>>)
PyStr(s) == Val("str", 0, s, <<>>)
PyTrue == Val("True", 0, "", <<>>)
PyFalse == Val("False", 0, "", <<>>)
PyNone == Val("None", 0, "", <<>>)
PyList(items) == Val("list", 0, "", items)
PyDict(items) == Val("dict", 0, "", items)
Item(key, val) == [key |-> key, val |-> val]

\* d[key] = val on a dict kept as its items in insertion order
RECURSIVE DictSet(_, _, _)
DictSet(items, key, val) ==
    IF items = <<>>
    THEN <<Item(key, val)>>
    ELSE IF Head(items).key = key
         THEN <<Item(key, val)>> \o Tail(items)
         ELSE <<Head(items)>> \o DictSet(Tail(items), key, val)

Parsed(val, next) == [ok |-> TRUE, val |-> val, next |-> next, msg |-> ""]
ParseFails(msg) == [ok |-> FALSE, val |-> PyNone, next |-> 0, msg |-> msg]

RECURSIVE ParseValue(_, _)
RECURSIVE ParseMembers(_, _, _)
RECURSIVE ParseElements(_, _, _)

\* the members of an object after its opening brace or a comma
ParseMembers(toks, i, acc) ==
    IF i > Len(toks) \/ toks[i].t # "str"
    THEN ParseFails("Expecting property name enclosed in double quotes")
    ELSE IF i + 1 > Len(toks) \/ toks[i + 1] # Colon
    THEN ParseFails("Expecting ':' delimiter")
    ELSE LET v == ParseValue(toks, i + 2)
         IN  IF ~v.ok
             THEN v
             ELSE LET items == DictSet(acc, toks[i].v, v.val)
                  IN  IF v.next <= Len(toks) /\ toks[v.next] = RBrace
                      THEN Parsed(PyDict(items), v.next + 1)
                      ELSE IF v.next <= Len(toks) /\ toks[v.next] = Comma
                      THEN ParseMembers(toks, v.next + 1, items)
                      ELSE ParseFails("Expecting ',' delimiter")

\* the elements of an array after its opening bracket or a comma
ParseElements(toks, i, acc) ==
    LET v == ParseValue(toks, i)
    IN  IF ~v.ok
        THEN v
        ELSE IF v.next <= Len(toks) /\ toks[v.next] = RBracket
        THEN Parsed(PyList(Append(acc, v.val)), v.next + 1)
        ELSE IF v.next <= Len(toks) /\ toks[v.next] = Comma
        THEN ParseElements(toks, v.next + 1, Append(acc, v.val))
        ELSE ParseFails("Expecting ',' delimiter")

ParseValue(toks, i) ==
    IF i > Len(toks)
    THEN ParseFails("Expecting value")
    ELSE LET tok == toks[i]
         IN  CASE tok.t = "int" -> Parsed(PyInt(IntOf(tok.v)), i + 1)
               [] tok.t = "str" -> Parsed(PyStr(tok.v), i + 1)
               [] tok = LitTok("true") -> Parsed(PyTrue, i + 1)
               [] tok = LitTok("false") -> Parsed(PyFalse, i + 1)
               [] tok = LitTok("null") -> Parsed(PyNone, i + 1)
               [] tok = LBrace ->
                    IF i + 1 <= Len(toks) /\ toks[i + 1] = RBrace
                    THEN Parsed(PyDict(<<>>), i + 2)
                    ELSE ParseMembers(toks, i + 1, <<>>)
               [] tok = LBracket ->
                    IF i + 1 <= Len(toks) /\ toks[i + 1] = RBracket
                    THEN Parsed(PyList(<<>>), i + 2)
                    ELSE ParseElements(toks, i + 1, <<>>)
               [] OTHER -> ParseFails("Expecting value")

JSONDecodeError(msg) == Exc("JSONDecodeError", msg, TRUE, FALSE)

Loaded(val) == [ok |-> TRUE, val |-> val, exc |-> NoExc]
LoadRaises(e) == [ok |-> FALSE, val |-> PyNone, exc |-> e]

\* json.loads
loads(text) ==
    LET r == ParseValue(text, 1)
    IN  IF ~r.ok
        THEN LoadRaises(JSONDecodeError(r.msg))
        ELSE IF r.next # Len(text) + 1
        THEN LoadRaises(JSONDecodeError("Extra data"))
        ELSE Loaded(r.val)

RECURSIVE dumps(_)
RECURSIVE DumpItems(_, _)
RECURSIVE DumpElements(_, _)

DumpItems(items, i) ==
    IF i > Len(items)
    THEN <<>>
    ELSE (IF i > 1 THEN <<Comma>> ELSE <<>>)
            \o <<StrTok(items[i].key), Colon>> \o dumps(items[i].val)
            \o DumpItems(items, i + 1)

DumpElements(items, i) ==
    IF i > Len(items)
    THEN <<>>
    ELSE (IF i > 1 THEN <<Comma>> ELSE <<>>)
            \o dumps(items[i]) \o DumpElements(items, i + 1)

\* json.dumps
dumps(v) ==
    CASE v.k = "int" -> <<IntTok(IntLexemes[v.n + 1])>>
      [] v.k = "str" -> <<StrTok(v.s)>>
      [] v.k = "True" -> <<LitTok("true")>>
      [] v.k = "False" -> <<LitTok("false")>>
      [] v.k = "None" -> <<LitTok("null")>>
      [] v.k = "list" -> <<LBracket>> \o DumpElements(v.items, 1) \o <<RBracket>>
      [] v.k = "dict" -> <<LBrace>> \o DumpItems(v.items, 1) \o <<RBrace>>

(* --------------------------- error formatting -------------------------- *)

Returns(text) == [kind |-> "return", value |-> text, exc |-> NoExc]
Raises(e) == [kind |-> "raise", value |-> <<>>, exc |-> e]

\* repr() of an exception instance
repr(e) == e.cls \o "('" \o e.msg \o "')"

\* what an exception class whose __repr__ is broken raises from repr()
ReprError == Exc("RuntimeError", "no repr", TRUE, FALSE)

format_exception(e) ==
    IF e.reprRaises
    THEN Raises(ReprError)
    ELSE Returns(dumps(PyDict(<<Item("is_error", PyTrue),
                                Item("exception", PyStr(repr(e)))>>)))

format_error(message) ==
    dumps(PyDict(<<Item("is_error", PyTrue), Item("error", PyStr(message))>>))

(* --------------------------- calling the callable ---------------------- *)

DefaultValue == PyInt(1)

Min(a, b) == IF a < b THEN a ELSE b

Bound(b) == [ok |-> TRUE, bound |-> b, exc |-> NoExc]
BindRaises(e) == [ok |-> FALSE, bound |-> <<>>, exc |-> e]

TypeError(msg) == Exc("TypeError", msg, TRUE, FALSE)

KwValue(kwargs, key) ==
    kwargs[CHOOSE j \in DOMAIN kwargs : kwargs[j].key = key].val

\* binding of positional and keyword arguments to the signature of f
Bind(f, args, kwargs) ==
    LET params == f.params
        names == {params[i].name : i \in 1..Len(params)}
        keys == {kwargs[j].key : j \in DOMAIN kwargs}
        byPosition == {params[i].name : i \in 1..Min(Len(args), Len(params))}
        missing == {i \in 1..Len(params) :
                        /\ i > Len(args)
                        /\ params[i].name \notin keys
                        /\ ~params[i].hasDefault}
    IN  IF keys \ names # {}
        THEN BindRaises(TypeError(f.name \o "() got an unexpected keyword argument"))
        ELSE IF keys \cap byPosition # {}
        THEN BindRaises(TypeError(f.name \o "() got multiple values for argument"))
        ELSE IF Len(args) > Len(params)
        THEN BindRaises(TypeError(f.name \o "() takes fewer positional arguments"))
        ELSE IF missing # {}
        THEN BindRaises(TypeError(f.name \o "() missing required positional argument"))
        ELSE Bound([i \in 1..Len(params) |->
                        IF i <= Len(args) THEN args[i]
                        ELSE IF params[i].name \in keys
                             THEN KwValue(kwargs, params[i].name)
                             ELSE DefaultValue])

\* the body of the callable, run on its bound parameters
RunBody(f, bound) ==
    CASE f.body.does = "return" -> Returns(f.body.value)
      [] f.body.does = "raise" -> Raises(f.body.exc)
      [] f.body.does = "dumps" -> Returns(dumps(bound[1]))

\* function(*args, **kwargs)
Invoke(f, args, kwargs) ==
    LET b == Bind(f, args, kwargs)
    IN  IF ~b.ok THEN Raises(b.exc) ELSE RunBody(f, b.bound)

\* function(**value) with the returned string put in a JSON array
InvokeStarStar_enveloped(f, value) ==
    IF value.k # "dict"
    THEN Raises(TypeError(f.name \o "() argument after ** must be a mapping"))
    ELSE LET o == Invoke(f, <<>>, value.items)
         IN  IF o.kind = "return"
             THEN Returns(<<LBracket>> \o o.value \o <<RBracket>>)
             ELSE o

\* function(**value): the value after ** must be a mapping
InvokeStarStar(f, value) ==
    IF value.k # "dict"
    THEN Raises(TypeError(f.name \o "() argument after ** must be a mapping"))
    ELSE Invoke(f, <<>>, value.items)

\* Tool.__call__ with the try/except of safe_call around the call
call_catching(f, args, kwargs) ==
    LET o == Invoke(f, args, kwargs)
    IN  IF o.kind = "raise" /\ o.exc.isException
        THEN format_exception(o.exc)
        ELSE o

\* Tool.__call__
call(f, args, kwargs) == Invoke(f, args, kwargs)

\* an except clause for ValueError and its subclasses only
Handle_onlyValueError(e) ==
    IF e.cls \in {"ValueError", "JSONDecodeError"}
    THEN format_exception(e)
    ELSE Raises(e)

\* the except clause of safe_call: Exception and its subclasses are handled,
\* anything else leaves safe_call
Handle(e) == IF e.isException THEN format_exception(e) ELSE Raises(e)

\* Tool.safe_call, run without interruption
safe_call(f, json_args) ==
    LET d == loads(json_args)
    IN  IF ~d.ok
        THEN Handle(d.exc)
        ELSE LET o == InvokeStarStar(f, d.val)
             IN  IF o.kind = "raise" THEN Handle(o.exc) ELSE o

(* ------------------------------- inputs -------------------------------- *)

Description == <<Meta(TRUE, "a desc")>>

AllAnnotations ==
    {EmptyAnnotation}
        \cup {Plain(o) : o \in Origins}
        \cup {Annotated(o, m) : o \in Origins, m \in SeqsUpTo(MetaValues, MaxMeta)}

AllParams == {Parameter("a", a, d) : a \in AllAnnotations, d \in BOOLEAN}

BuildOrigins ==
    {Class("int"), Nullable("str"), Class("NoneType"), Class("MyEnum"),
     Class("object"), {"int", "str"}}

BuildAnnotations ==
    {EmptyAnnotation, Plain(Class("int"))}
        \cup {Annotated(o, Description) : o \in BuildOrigins}
        \cup {Annotated(Class("int"), m) :
                m \in {<<Meta(TRUE, "")>>, <<Meta(FALSE, "42")>>,
                       <<Meta(TRUE, "a desc"), Meta(TRUE, "a desc")>>}}

\* parameter lists of up to n parameters; Python keeps the names distinct
ParamLists(n) ==
    UNION {{[i \in 1..k |-> Parameter(ParamNames[i], x[i][1], x[i][2])] :
                x \in [1..k -> BuildAnnotations \X BOOLEAN]} : k \in 0..n}

Docs == {DocNone, Doc(""), Doc("tool description")}

ReturnAnnotations == {"str", "int", "empty"}

Body(does, value, e) == [does |-> does, value |-> value, exc |-> e]

ReturnOutput == Body("return", <<WordTok("output")>>, NoExc)
ReturnFormatError == Body("return", format_error("nope"), NoExc)
DumpsFirst == Body("dumps", <<>>, NoExc)
RaiseValueError == Body("raise", <<>>, Exc("ValueError", "boom", TRUE, FALSE))
RaiseSystemExit == Body("raise", <<>>, Exc("SystemExit", "1", FALSE, FALSE))
RaiseBadRepr == Body("raise", <<>>, Exc("Bad", "", TRUE, TRUE))

CallablesBuild ==
    {Callable("tool", doc, ret, ps, ReturnOutput) :
        doc \in Docs, ret \in ReturnAnnotations, ps \in ParamLists(MaxParams)}

Sig0 == <<>>
Sig1 == <<Parameter("a", Annotated(Class("int"), Description), FALSE)>>
Sig2 == <<Parameter("a", Annotated(Class("bool"), Description), FALSE),
          Parameter("b", Annotated(Class("int"), Description), TRUE)>>

CallablesCall ==
    {Callable("tool", Doc("tool description"), "str", sig, body) :
        sig \in {Sig0, Sig1, Sig2},
        body \in {ReturnOutput, ReturnFormatError, RaiseValueError,
                  RaiseSystemExit, RaiseBadRepr}}
    \cup {Callable("tool", Doc("tool description"), "str", sig, DumpsFirst) :
            sig \in {Sig1, Sig2}}

JsonArgs ==
    { <<LBrace, StrTok("a"), Colon, IntTok("1"), RBrace>>,
      <<LBrace, RBrace>>,
      <<LBrace, StrTok("a"), Colon, IntTok("1"), Comma,
        StrTok("b"), Colon, IntTok("2"), RBrace>>,
      <<LBrace, StrTok("a"), Colon,
        LBrace, StrTok("is_error"), Colon, LitTok("true"), RBrace, RBrace>>,
      <<LBracket, IntTok("1"), RBracket>>,
      <<LBrace, StrTok("a"), Colon>>,
      <<>> }

Arguments(args, kwargs) == [args |-> args, kwargs |-> kwargs]

DirectArgs ==
    { Arguments(<<>>, <<>>),
      Arguments(<<PyTrue>>, <<>>),
      Arguments(<<PyTrue, PyInt(3)>>, <<>>),
      Arguments(<<>>, <<Item("a", PyInt(1))>>),
      Arguments(<<PyInt(1), PyInt(2), PyInt(3)>>, <<>>) }

(* ------------------------------- state --------------------------------- *)

Callers == 1..MaxCallers

NoFunction == Callable("", DocNone, "empty", <<>>, ReturnOutput)
NoParam == Parameter("", EmptyAnnotation, FALSE)
NotConverted == [ok |-> FALSE, schema |-> <<>>, exc |-> NoExc]
NoOutcome == [kind |-> "none", value |-> <<>>, exc |-> NoExc]

Frame(pc, op, json_args, arguments, decoded, e, outcome) ==
    [pc |-> pc, op |-> op, json_args |-> json_args, arguments |-> arguments,
     decoded |-> decoded, exc |-> e, outcome |-> outcome]

IdleFrame == Frame("idle", "", <<>>, Arguments(<<>>, <<>>), PyNone, NoExc, NoOutcome)

\* a parameter is given to convert_parameter
InitParam ==
    /\ param \in AllParams
    /\ converted = NotConverted
    /\ function = NoFunction
    /\ toolState = "none"
    /\ schema = NoSchema
    /\ raised = NoExc
    /\ frames = [c \in Callers |-> IdleFrame]

\* a callable is defined and about to be wrapped
InitBuild ==
    /\ function \in CallablesBuild
    /\ toolState = "defined"
    /\ schema = NoSchema
    /\ raised = NoExc
    /\ frames = [c \in Callers |-> IdleFrame]
    /\ param = NoParam
    /\ converted = NotConverted

\* a callable that satisfies the construction contract is defined
InitCall ==
    /\ function \in CallablesCall
    /\ toolState = "defined"
    /\ schema = NoSchema
    /\ raised = NoExc
    /\ frames = [c \in Callers |-> IdleFrame]
    /\ param = NoParam
    /\ converted = NotConverted

(* ------------------------------- actions ------------------------------- *)

ConvertParameter ==
    /\ param # NoParam
    /\ converted = NotConverted
    /\ converted' = convert_parameter(param)
    /\ UNCHANGED <<function, toolState, schema, raised, frames, param>>

\* Tool(function)
Construct ==
    /\ toolState = "defined"
    /\ LET r == ToolInit(function)
       IN  /\ toolState' = IF r.ok THEN "constructed" ELSE "failed"
           /\ schema' = r.schema
           /\ raised' = r.exc
    /\ UNCHANGED <<function, frames, param, converted>>

\* tool.safe_call(json_args) up to the return of json.loads
SafeCallLoads(c, json_args) ==
    /\ toolState = "constructed"
    /\ frames[c].pc = "idle"
    /\ LET d == loads(json_args)
       IN  frames' = [frames EXCEPT ![c] =
                IF d.ok
                THEN Frame("invoke", "safe_call", json_args, Arguments(<<>>, <<>>),
                           d.val, NoExc, NoOutcome)
                ELSE Frame("except", "safe_call", json_args, Arguments(<<>>, <<>>),
                           PyNone, d.exc, NoOutcome)]
    /\ UNCHANGED <<function, toolState, schema, raised, param, converted>>

\* self.function(**decoded) with decoded kept on the instance, where the
\* loads of another caller may have replaced it
SafeCallInvoke_shared(c) ==
    /\ frames[c].pc = "invoke"
    /\ \E d \in Callers :
        /\ frames[d].pc = "invoke"
        /\ LET o == InvokeStarStar(function, frames[d].decoded)
           IN  frames' = [frames EXCEPT ![c] =
                    IF o.kind = "return"
                    THEN [@ EXCEPT !.pc = "done", !.outcome = o]
                    ELSE [@ EXCEPT !.pc = "except", !.exc = o.exc]]
    /\ UNCHANGED <<function, toolState, schema, raised, param, converted>>

\* self.function(**decoded) inside the try
SafeCallInvoke(c) ==
    /\ frames[c].pc = "invoke"
    /\ LET o == InvokeStarStar(function, frames[c].decoded)
       IN  frames' = [frames EXCEPT ![c] =
                IF o.kind = "return"
                THEN [@ EXCEPT !.pc = "done", !.outcome = o]
                ELSE [@ EXCEPT !.pc = "except", !.exc = o.exc]]
    /\ UNCHANGED <<function, toolState, schema, raised, param, converted>>

\* the exception in flight meets the except clause
SafeCallExcept(c) ==
    /\ frames[c].pc = "except"
    /\ frames' = [frames EXCEPT ![c] =
            [@ EXCEPT !.pc = "done", !.outcome = Handle(frames[c].exc)]]
    /\ UNCHANGED <<function, toolState, schema, raised, param, converted>>

\* tool(*args, **kwargs)
DirectCall(c, a) ==
    /\ toolState = "constructed"
    /\ frames[c].pc = "idle"
    /\ frames' = [frames EXCEPT ![c] =
            Frame("done", "call", <<>>, a, PyNone, NoExc,
                  call(function, a.args, a.kwargs))]
    /\ UNCHANGED <<function, toolState, schema, raised, param, converted>>

\* the caller takes the result or the exception
Return(c) ==
    /\ frames[c].pc = "done"
    /\ frames' = [frames EXCEPT ![c] = IdleFrame]
    /\ UNCHANGED <<function, toolState, schema, raised, param, converted>>

NextParam == ConvertParameter

NextBuild == Construct

NextCall ==
    \/ Construct
    \/ \E c \in Callers, json_args \in JsonArgs : SafeCallLoads(c, json_args)
    \/ \E c \in Callers : SafeCallInvoke(c)
    \/ \E c \in Callers : SafeCallExcept(c)
    \/ \E c \in Callers, a \in DirectArgs : DirectCall(c, a)
    \/ \E c \in Callers : Return(c)

SpecParam == InitParam /\ [][NextParam]_vars

SpecBuild == InitBuild /\ [][NextBuild]_vars

SpecCall == InitCall /\ [][NextCall]_vars

(* ------------------------ vocabulary of the claims --------------------- *)

\* the type table of the parameter schema compiler
TypeTable ==
    [int |-> "integer", float |-> "number", bool |-> "boolean", str |-> "string",
     list |-> "array", NoneType |-> "null"]

NullableBases == {"int", "float", "bool", "str", "list"}

SupportedOrigin(o) ==
    \/ \E c \in DOMAIN TypeTable : o = {c}
    \/ \E c \in NullableBases : o = {c, "NoneType"}
    \/ \E e \in DOMAIN StrEnumMembers : o = {e}

\* Annotated[<type>, <one string>]
WellAnnotated(p) ==
    /\ p.annotation.form = "Annotated"
    /\ Len(p.annotation.metadata) = 1
    /\ p.annotation.metadata[1].isStr

Described(p) == WellAnnotated(p) /\ p.annotation.metadata[1].text # ""

IsNullable(p) == "NoneType" \in p.annotation.origin /\ p.annotation.origin # {"NoneType"}

ConvertDone == param # NoParam /\ converted # NotConverted

ConstructDone == toolState \in {"constructed", "failed"}

Params == function.params

Parameters == schema.function.parameters

SafeDone(c) == frames[c].pc = "done" /\ frames[c].op = "safe_call"

DirectDone(c) == frames[c].pc = "done" /\ frames[c].op = "call"

HasKey(items, key) == \E j \in DOMAIN items : items[j].key = key

\* the text is a JSON object whose is_error member is true
IsErrorShape(text) ==
    LET d == loads(text)
    IN  /\ d.ok
        /\ d.val.k = "dict"
        /\ HasKey(d.val.items, "is_error")
        /\ KwValue(d.val.items, "is_error") = PyTrue

\* the text is {"is_error": true, "exception": <repr of e>}
IsExceptionPayload(text, e) ==
    /\ IsErrorShape(text)
    /\ HasKey(loads(text).val.items, "exception")
    /\ KwValue(loads(text).val.items, "exception") = PyStr(repr(e))

\* where a safe call of f on json_args fails, if it does
FailureStage(f, json_args) ==
    LET d == loads(json_args)
    IN  IF ~d.ok THEN "decode"
        ELSE IF d.val.k # "dict" THEN "mapping"
        ELSE IF ~Bind(f, <<>>, d.val.items).ok THEN "bind"
        ELSE IF f.body.does = "raise" THEN "body"
        ELSE "none"

\* the string the callable returns when called with the decoded keywords
CalleeReturn(f, json_args) ==
    IF f.body.does = "return"
    THEN f.body.value
    ELSE dumps(KwValue(loads(json_args).val.items, "a"))

(* -------------------------------- C1 ----------------------------------- *)

C2_ErrorShapeOnlyOnFailure ==
    \A c \in Callers :
        (SafeDone(c) /\ frames[c].outcome.kind = "return"
                     /\ IsErrorShape(frames[c].outcome.value)) =>
            FailureStage(function, frames[c].json_args) # "none"

\* C2 amended: when the callable completes normally safe_call returns its
\* return value verbatim; a result with "is_error": true comes from a failed
\* invocation or is the very string the callable returned.
C2_SuccessVerbatim ==
    \A c \in Callers :
        SafeDone(c) =>
            LET stage == FailureStage(function, frames[c].json_args)
                o == frames[c].outcome
            IN  /\ stage = "none" =>
                    o = Returns(CalleeReturn(function, frames[c].json_args))
                /\ (o.kind = "return" /\ IsErrorShape(o.value)) =>
                    \/ stage # "none"
                    \/ IsErrorShape(CalleeReturn(function, frames[c].json_args))

\* a safe call of a callable that completed normally has returned its string
C2_Witness ==
    \E c \in Callers :
        /\ SafeDone(c)
        /\ FailureStage(function, frames[c].json_args) = "none"
        /\ function.body.does = "dumps"
        /\ frames[c].outcome = Returns(<<IntTok("1")>>)

(* -------------------------------- C3 ----------------------------------- *)

IndexIn(seq, x) == CHOOSE j \in DOMAIN seq : seq[j] = x

\* C3: in a constructed tool with at least one parameter, required holds
\* exactly the names of the parameters without a default, once each and in
\* declaration order, whatever the nullability of their types.
C3_RequiredIsNoDefault ==
    (toolState = "constructed" /\ Len(Params) >= 1) =>
        LET required == Parameters.required
        IN  /\ \A i \in DOMAIN Params :
                    (\E j \in DOMAIN required : required[j] = Params[i].name)
                        <=> ~Params[i].hasDefault
            /\ \A j \in DOMAIN required :
                    \E i \in DOMAIN Params : Params[i].name = required[j]
            /\ \A j, k \in DOMAIN required : j # k => required[j] # required[k]
            /\ \A i, k \in DOMAIN Params :
                    (i < k /\ ~Params[i].hasDefault /\ ~Params[k].hasDefault) =>
                        IndexIn(required, Params[i].name)
                            < IndexIn(required, Params[k].name)

\* a nullable parameter without a default is required while a non-nullable
\* parameter with a default is not
C3_Witness ==
    /\ toolState = "constructed"
    /\ Len(Params) = 2
    /\ ~IsNullable(Params[1]) /\ Params[1].hasDefault
    /\ IsNullable(Params[2]) /\ ~Params[2].hasDefault
    /\ Parameters.required = <<Params[2].name>>

(* -------------------------------- C4 ----------------------------------- *)

\* C4: the schema of a constructed tool has a parameters key exactly when the
\* callable declares a parameter; without one it holds type, name and
\* description only, with one parameters is an object with a properties entry
\* for every parameter name and a required list.
C4_ParametersKey ==
    toolState = "constructed" =>
        /\ DOMAIN schema = {"type", "function"}
        /\ schema.type = "function"
        /\ schema.function.name = function.name
        /\ schema.function.description = function.doc.text
        /\ "parameters" \in DOMAIN schema.function <=> Len(Params) >= 1
        /\ Len(Params) = 0 => DOMAIN schema.function = {"name", "description"}
        /\ Len(Params) >= 1 =>
            /\ DOMAIN schema.function = {"name", "description", "parameters"}
            /\ DOMAIN Parameters = {"type", "properties", "required"}
            /\ Parameters.type = "object"
            /\ DOMAIN Parameters.properties
                    = {Params[i].name : i \in DOMAIN Params}
            /\ DOMAIN Parameters.required = 1..Len(Parameters.required)

\* a callable without parameters has been wrapped
C4_Witness ==
    /\ toolState = "constructed"
    /\ Len(Params) = 0
    /\ schema = [type |-> "function",
                 function |-> [name |-> "tool", description |-> "tool description"]]

(* -------------------------------- C5 ----------------------------------- *)

\* C5: a well annotated parameter of a base type of the table converts to the
\* table's type, its nullable variant to the same type, a string enumeration
\* to "string" with enum the members' values in declaration order; enum is
\* present for enumerations only.
C5_TypeTable ==
    (ConvertDone /\ WellAnnotated(param)) =>
        LET o == param.annotation.origin
        IN  /\ \A c \in DOMAIN TypeTable :
                    o = {c} =>
                        /\ converted.ok
                        /\ converted.schema.type = TypeTable[c]
                        /\ "enum" \notin DOMAIN converted.schema
            /\ \A c \in NullableBases :
                    o = {c, "NoneType"} =>
                        /\ converted.ok
                        /\ converted.schema.type = TypeTable[c]
                        /\ "enum" \notin DOMAIN converted.schema
            /\ \A e \in DOMAIN StrEnumMembers :
                    o = {e} =>
                        /\ converted.ok
                        /\ converted.schema.type = "string"
                        /\ "enum" \in DOMAIN converted.schema
                        /\ Len(converted.schema.enum) = Len(StrEnumMembers[e])
                        /\ \A i \in DOMAIN StrEnumMembers[e] :
                                converted.schema.enum[i] = StrEnumMembers[e][i].value
            /\ (converted.ok /\ "enum" \in DOMAIN converted.schema) =>
                    \E e \in DOMAIN StrEnumMembers : o = {e}

\* a nullable list parameter has been converted to "array"
C5_Witness ==
    /\ ConvertDone
    /\ WellAnnotated(param)
    /\ param.annotation.origin = {"list", "NoneType"}
    /\ converted.ok
    /\ converted.schema.type = "array"

(* -------------------------------- C6 ----------------------------------- *)

\* the errors the claim designates for the defects of a callable
DesignatedErrors(f) ==
    (IF f.doc.isNone \/ f.doc.text = "" THEN {MissingDescription} ELSE {})
        \cup (IF f.ret # "str" THEN {InvalidReturnType} ELSE {})
        \cup (IF \E i \in DOMAIN f.params : ~WellAnnotated(f.params[i])
              THEN {MalformedAnnotation} ELSE {})
        \cup {UnsupportedParameterType(f.params[i].annotation.origin) :
                i \in {j \in DOMAIN f.params :
                        /\ WellAnnotated(f.params[j])
                        /\ ~SupportedOrigin(f.params[j].annotation.origin)}}

\* C6: wrapping a callable with a defect (no documentation, a return type
\* other than str, a parameter that is not annotated or annotated more than
\* once, a parameter of an unsupported type) fails at construction with the
\* error designated for one of its defects, and leaves no tool and no schema.
C6_FailsFastWithDesignatedError ==
    (ConstructDone /\ DesignatedErrors(function) # {}) =>
        /\ toolState = "failed"
        /\ schema = NoSchema
        /\ raised \in DesignatedErrors(function)

(* -------------------------------- C7 ----------------------------------- *)

JsonTypes == {"integer", "number", "boolean", "string", "array", "null"}

\* C7: in a constructed tool every parameter's properties entry has one type
\* tag and one non-empty description; a parameter without a description, with
\* more than one piece of metadata, with metadata that is not a string or
\* with an empty description makes construction fail.
C7_OneTypeOneDescription ==
    ConstructDone =>
        /\ (toolState = "constructed" /\ Len(Params) >= 1) =>
                \A i \in DOMAIN Params :
                    LET entry == Parameters.properties[Params[i].name]
                    IN  /\ {"type", "description"} \subseteq DOMAIN entry
                        /\ entry.type \in JsonTypes
                        /\ entry.description # ""
        /\ (\E i \in DOMAIN Params : ~Described(Params[i])) =>
                toolState = "failed"

(* -------------------------------- C8 ----------------------------------- *)

\* C8: a well annotated parameter whose base type is outside the table fails
\* with the TypeError "Annotated parameter type <type> not supported".
C8_UnsupportedTypeNamed ==
    (ConvertDone /\ WellAnnotated(param)
                 /\ ~SupportedOrigin(param.annotation.origin)) =>
        /\ ~converted.ok
        /\ converted.exc.cls = "TypeError"
        /\ converted.exc.msg =
                "Annotated parameter type " \o OriginStr(param.annotation.origin)
                    \o " not supported"

(* -------------------------------- C9 ----------------------------------- *)

\* C9: a direct call returns what the callable returns for the forwarded
\* arguments, and raises what binding or the callable raises, unchanged.
C9_DirectCallPropagates ==
    \A c \in Callers :
        DirectDone(c) =>
            LET a == frames[c].arguments
                b == Bind(function, a.args, a.kwargs)
                o == frames[c].outcome
                first == IF Len(a.args) >= 1 THEN a.args[1]
                         ELSE KwValue(a.kwargs, "a")
            IN  /\ ~b.ok => o = Raises(b.exc)
                /\ (b.ok /\ function.body.does = "raise") =>
                        o = Raises(function.body.exc)
                /\ (b.ok /\ function.body.does = "return") =>
                        o = Returns(function.body.value)
                /\ (b.ok /\ function.body.does = "dumps") =>
                        o = Returns(dumps(first))

\* a direct call of a callable that raises ValueError has raised it
C9_Witness ==
    \E c \in Callers :
        /\ DirectDone(c)
        /\ function.body = RaiseValueError
        /\ Bind(function, frames[c].arguments.args, frames[c].arguments.kwargs).ok
        /\ frames[c].outcome = Raises(RaiseValueError.exc)

(* -------------------------------- C10 ---------------------------------- *)

\* C10: whatever calls have run or are running, the schema of a constructed
\* tool is the one its construction computed, and a completed safe call has
\* the result that the call alone, on its own argument string, produces.
C10_SchemaFrozenResultsIndependent ==
    /\ toolState = "constructed" => schema = ToolInit(function).schema
    /\ \A c \in Callers :
            SafeDone(c) =>
                frames[c].outcome = safe_call(function, frames[c].json_args)

\* a safe call has completed while another caller's safe call on a different
\* argument string was still running
C10_Witness ==
    \E c, d \in Callers :
        /\ c # d
        /\ SafeDone(c)
        /\ frames[d].op = "safe_call"
        /\ frames[d].pc \in {"invoke", "except"}
        /\ frames[d].json_args # frames[c].json_args
        /\ Len(Params) >= 1

====
